---- MODULE Spec2Model ----
(***************************************************************************)
(* Model of src/app.py: the box-office scraper.  One run of main() fetches *)
(* a page, locates a wikitable, types its columns, persists the table and  *)
(* renders up to three charts.                                             *)
(*                                                                         *)
(* Text is modelled character by character: a string is a sequence of      *)
(* one-character atoms.  Characters outside ASCII are written as two-      *)
(* character atoms: "i'" is i-acute, "o'" o-acute, "n~" n-tilde, "o_" the  *)
(* masculine ordinal sign, "o*" the degree sign, "--" the em dash; the     *)
(* capital forms are "I'", "O'", "N~".                                     *)
(***************************************************************************)
EXTENDS Integers, Sequences, FiniteSets, TLC

VARIABLES
    pc,          \* position of main(): the statement that runs next
    error,       \* the exception that ended the run, or "none"
    soup,        \* the parsed document: the sequence of its <table> elements
    table_html,  \* find_target_table's result: index of the table in soup, 0 for None
    raw,         \* the table pd.read_html extracted (line 50)
    df,          \* the data frame, after lines 53-82
    roles,       \* col_movie, col_world, col_domestic, col_foreign, col_year
    money_like,  \* the list built at lines 68-72
    store,       \* the SQLite file: connection state and the table written
    charts,      \* per chart: "pending", "skipped", "rendered"
    inputs,      \* per chart: the rows (indices of df) left after dropna()
    printed,     \* the summary line of line 137 was printed
    arg,         \* to_number's argument (function-level check)
    ret          \* to_number's result   (function-level check)

vars == <<pc, error, soup, table_html, raw, df, roles, money_like, store,
          charts, inputs, printed, arg, ret>>

-----------------------------------------------------------------------------
(* Bounds of the model.                                                    *)

MaxLen == 3
MaxTables == 3
MaxPickCols == 3
MaxCols == 3
MaxCells == 6

-----------------------------------------------------------------------------
(* Text primitives of Python that the program uses.                        *)

UpperToLower ==
    [ch \in {"A","B","C","D","E","F","G","H","I","J","K","L","M","N","O","P",
             "Q","R","S","T","U","V","W","X","Y","Z","A'","E'","I'","O'","U'","N~"} |->
       CASE ch = "A" -> "a" [] ch = "B" -> "b" [] ch = "C" -> "c" [] ch = "D" -> "d"
         [] ch = "E" -> "e" [] ch = "F" -> "f" [] ch = "G" -> "g" [] ch = "H" -> "h"
         [] ch = "I" -> "i" [] ch = "J" -> "j" [] ch = "K" -> "k" [] ch = "L" -> "l"
         [] ch = "M" -> "m" [] ch = "N" -> "n" [] ch = "O" -> "o" [] ch = "P" -> "p"
         [] ch = "Q" -> "q" [] ch = "R" -> "r" [] ch = "S" -> "s" [] ch = "T" -> "t"
         [] ch = "U" -> "u" [] ch = "V" -> "v" [] ch = "W" -> "w" [] ch = "X" -> "x"
         [] ch = "Y" -> "y" [] ch = "Z" -> "z" [] ch = "A'" -> "a'" [] ch = "E'" -> "e'"
         [] ch = "I'" -> "i'" [] ch = "O'" -> "o'" [] ch = "U'" -> "u'" [] ch = "N~" -> "n~"]

\* str.lower()
Lower(s) ==
    [i \in 1..Len(s) |-> IF s[i] \in DOMAIN UpperToLower THEN UpperToLower[s[i]] ELSE s[i]]

\* the `in` operator on two strings: pat occurs in s as a contiguous run
Contains(pat, s) ==
    \E i \in 0..(Len(s) - Len(pat)) : SubSeq(s, i + 1, i + Len(pat)) = pat

IsSpace(ch) == ch = " "

RECURSIVE LStrip(_)
LStrip(s) ==
    IF s # <<>> /\ IsSpace(Head(s)) THEN LStrip(Tail(s)) ELSE s

RECURSIVE RStrip(_)
RStrip(s) ==
    IF s # <<>> /\ IsSpace(s[Len(s)]) THEN RStrip(SubSeq(s, 1, Len(s) - 1)) ELSE s

\* str.strip()
Strip(s) == RStrip(LStrip(s))

\* the regular expression class \d, on the characters of the model
IsDigit(ch) == ch \in {"0","1","2","3","4","5","6","7","8","9"}

\* re.sub(r"[^\d]", "", s)
DigitsOf(s) == SelectSeq(s, IsDigit)

-----------------------------------------------------------------------------
(* Cell values.  A cell is a record: text, an integer, a float, or one of  *)
(* the two missing markers of pandas (NaN and pd.NA).  Integers are kept   *)
(* as their decimal digits, so that the 64-bit limits of pandas are the    *)
(* real ones.                                                              *)

NaN == [kind |-> "nan"]
NA == [kind |-> "na"]
Text(s) == [kind |-> "str", s |-> s]
IntVal(d) == [kind |-> "int", digits |-> d]
\* a float64 too large for an integer type: only its magnitude is kept
FloatVal(n) == [kind |-> "float", exp10 |-> n]

\* pd.isna
IsNa(x) == x.kind \in {"nan", "na"}

DigitValue ==
    [ch \in {"0","1","2","3","4","5","6","7","8","9"} |->
       CASE ch = "0" -> 0 [] ch = "1" -> 1 [] ch = "2" -> 2 [] ch = "3" -> 3
         [] ch = "4" -> 4 [] ch = "5" -> 5 [] ch = "6" -> 6 [] ch = "7" -> 7
         [] ch = "8" -> 8 [] ch = "9" -> 9]

\* the decimal digits of an integer, without leading zeros
RECURSIVE Canonical(_)
Canonical(d) ==
    IF Len(d) > 1 /\ Head(d) = "0" THEN Canonical(Tail(d)) ELSE d

\* a <= b for two canonical digit strings
RECURSIVE DigitsLeq(_, _)
DigitsLeq(a, b) ==
    IF Len(a) # Len(b) THEN Len(a) < Len(b)
    ELSE IF a = <<>> THEN TRUE
    ELSE IF Head(a) # Head(b) THEN DigitValue[Head(a)] < DigitValue[Head(b)]
    ELSE DigitsLeq(Tail(a), Tail(b))

\* 2^64 - 1, the largest integer pandas keeps as an integer
UINT64_MAX ==
    <<"1","8","4","4","6","7","4","4","0","7","3","7","0","9","5","5","1","6","1","5">>

\* pd.to_numeric(s, errors="coerce") on a string of the model's characters:
\* the empty string and every string with a non-digit character give NaN; a
\* digit string gives an integer when it fits 64 bits and a float64 otherwise.
ToNumeric(s) ==
    IF s = <<>> \/ \E i \in 1..Len(s) : ~IsDigit(s[i]) THEN NaN
    ELSE IF DigitsLeq(Canonical(s), UINT64_MAX) THEN IntVal(Canonical(s))
    ELSE FloatVal(Len(Canonical(s)))

\* str(x) of a text cell
Str(x) == x.s

\* to_number (lines 16-25)
to_number(x) ==
    IF IsNa(x) THEN NA
    ELSE ToNumeric(DigitsOf(Str(x)))

\* pd.to_numeric(column, errors="coerce"), cell by cell: text is parsed, a number
\* stays, a missing value stays missing
ColToNumeric(x) ==
    CASE x.kind = "str" -> ToNumeric(x.s)
      [] x.kind \in {"int", "float"} -> x
      [] OTHER -> NaN

-----------------------------------------------------------------------------
(* find_target_table (lines 27-38).  A document is the sequence of its     *)
(* <table> elements in document order; a table has its class and caption.  *)

NoCaption == [has |-> FALSE]
Caption(s) == [has |-> TRUE, text |-> s]
Table(w, cap) == [wikitable |-> w, caption |-> cap]

\* soup.select("table.wikitable"): the indices of the wikitables, in document order
RECURSIVE SelectFrom(_, _)
SelectFrom(doc, i) ==
    IF i > Len(doc) THEN <<>>
    ELSE (IF doc[i].wikitable THEN <<i>> ELSE <<>>) \o SelectFrom(doc, i + 1)

SelectWikitables(doc) == SelectFrom(doc, 1)

REVENUE_TOKENS ==
    << <<"r","e","c","a","u","d","a","c","i","o","n","e","s">>,
       <<"r","e","c","a","u","d","a","c","i","o'","n">> >>

WORLD_TOKENS ==
    << <<"m","u","n","d","i","a","l">>, <<"m","u","n","d","o">> >>

ContainsAny(tokens, s) == \E k \in 1..Len(tokens) : Contains(tokens[k], s)

\* variant of CaptionMatches: `or` between the two token tests of line 34
CaptionMatchesEither(t) ==
    /\ t.caption.has
    /\ LET text == Lower(Strip(t.caption.text))
       IN ContainsAny(REVENUE_TOKENS, text) \/ ContainsAny(WORLD_TOKENS, text)

\* lines 30-34: the table has a caption whose text has a revenue and a worldwide token
CaptionMatches(t) ==
    /\ t.caption.has
    /\ LET text == Lower(Strip(t.caption.text))
       IN ContainsAny(REVENUE_TOKENS, text) /\ ContainsAny(WORLD_TOKENS, text)

\* the for loop of lines 29-35 over the selected tables: 0 when it falls through
RECURSIVE FirstMatch(_, _)
FirstMatch(doc, sel) ==
    IF sel = <<>> THEN 0
    ELSE IF CaptionMatches(doc[Head(sel)]) THEN Head(sel)
    ELSE FirstMatch(doc, Tail(sel))

\* the result is the index of the table in the document, 0 for None
find_target_table(doc) ==
    LET sel == SelectWikitables(doc)
        m == FirstMatch(doc, sel)
    IN IF m # 0 THEN m
       ELSE IF sel # <<>> THEN Head(sel) ELSE 0

-----------------------------------------------------------------------------
(* Column roles and typing (lines 53-82).  A table is its column labels    *)
(* and its rows; a row has one cell per column.                            *)

None == [some |-> FALSE]
Some(c) == [some |-> TRUE, label |-> c]

MOVIE_PATTERNS ==
    << <<"t","i'","t","u","l","o">>, <<"t","i","t","u","l","o">>,
       <<"p","e","l","i'","c","u","l","a">>, <<"p","e","l","i","c","u","l","a">>,
       <<"f","i","l","m">> >>

WORLD_PATTERNS ==
    << <<"r","e","c","a","u","d","a","c","i","o'","n"," ","m","u","n","d","i","a","l">>,
       <<"r","e","c","a","u","d","a","c","i","o","n"," ","m","u","n","d","i","a","l">>,
       <<"m","u","n","d","i","a","l">>, <<"g","l","o","b","a","l">> >>

DOMESTIC_PATTERNS ==
    << <<"e","e","."," ","u","u",".">>, <<"e","e","."," ","u","u">>,
       <<"e","s","t","a","d","o","s"," ","u","n","i","d","o","s">> >>

FOREIGN_PATTERNS ==
    << <<"f","u","e","r","a"," ","d","e"," ","e","e","."," ","u","u",".">>,
       <<"f","u","e","r","a"," ","d","e"," ","e","e","."," ","u","u">>,
       <<"i","n","t","e","r","n","a","c","i","o","n","a","l">>,
       <<"r","e","s","t","o"," ","d","e","l"," ","m","u","n","d","o">> >>

YEAR_PATTERNS ==
    << <<"a","n~","o"," ","d","e"," ","e","s","t","r","e","n","o">>, <<"a","n~","o">>,
       <<"a","n","o">>, <<"e","s","t","r","e","n","o">> >>

MONEY_TOKENS ==
    << <<"r","e","c","a","u","d","a","c","i","o'","n">>,
       <<"r","e","c","a","u","d","a","c","i","o","n">>,
       <<"t","a","q","u","i","l","l","a">>, <<"m","u","n","d","i","a","l">>,
       <<"e","e","."," ","u","u">>, <<"f","u","e","r","a">> >>

ORDINAL_LABELS ==
    { <<"n",".","o_">>, <<"n","o_">>, <<"n","o*">>, <<"p","u","e","s","t","o">>,
      <<"r","a","n","g","o">>, <<"p","o","s","i","c","i","o'","n">>,
      <<"p","o","s","i","c","i","o","n">> }

\* line 53: df.columns = [str(c).strip() for c in df.columns]
StripColumns(cols) == [i \in 1..Len(cols) |-> Strip(cols[i])]

\* the inner loop of pick (lines 56-58) for one pattern
RECURSIVE FirstColumnWith(_, _)
FirstColumnWith(pattern, cols) ==
    IF cols = <<>> THEN None
    ELSE IF Contains(pattern, Lower(Head(cols))) THEN Some(Head(cols))
    ELSE FirstColumnWith(pattern, Tail(cols))

\* variant of pick: the loops of lines 55-56 exchanged, the columns in order,
\* each against all the patterns
RECURSIVE pickByColumn(_, _)
pickByColumn(col_opts, cols) ==
    IF cols = <<>> THEN None
    ELSE IF ContainsAny(col_opts, Lower(Head(cols))) THEN Some(Head(cols))
    ELSE pickByColumn(col_opts, Tail(cols))

\* pick (lines 54-59): the patterns in order, each over all the columns
RECURSIVE pick(_, _)
pick(col_opts, cols) ==
    IF col_opts = <<>> THEN None
    ELSE LET r == FirstColumnWith(Head(col_opts), cols)
         IN IF r.some THEN r ELSE pick(Tail(col_opts), cols)

\* lines 61-65
PickRoles(cols) ==
    [movie |-> pick(MOVIE_PATTERNS, cols),
     world |-> pick(WORLD_PATTERNS, cols),
     domestic |-> pick(DOMESTIC_PATTERNS, cols),
     foreign |-> pick(FOREIGN_PATTERNS, cols),
     year |-> pick(YEAR_PATTERNS, cols)]

\* line 71
IsMoneyLabel(c) == ContainsAny(MONEY_TOKENS, Lower(c))

\* lines 68-72
MoneyLike(cols) == SelectSeq(cols, IsMoneyLabel)

InList(c, list) == \E i \in 1..Len(list) : list[i] = c

\* variant of ConvertCell: to_number applied to every column, not to the
\* money-like ones only
ConvertCellEveryColumn(c, x, money, col_year) ==
    LET a == to_number(x)
        b == IF Lower(c) \in ORDINAL_LABELS THEN ColToNumeric(a) ELSE a
    IN IF col_year.some /\ c = col_year.label THEN ColToNumeric(b) ELSE b

\* lines 73-82 for one cell of the column labelled c: to_number when the column
\* is money-like, then pd.to_numeric when it is an ordinal column, then
\* pd.to_numeric again when it is the year column
ConvertCell(c, x, money, col_year) ==
    LET a == IF InList(c, money) THEN to_number(x) ELSE x
        b == IF Lower(c) \in ORDINAL_LABELS THEN ColToNumeric(a) ELSE a
    IN IF col_year.some /\ c = col_year.label THEN ColToNumeric(b) ELSE b

\* lines 53-82: the frame after the columns are stripped and typed
Normalized(t) ==
    LET cols == StripColumns(t.cols)
        money == MoneyLike(cols)
        col_year == pick(YEAR_PATTERNS, cols)
    IN [cols |-> cols,
        rows |-> [r \in 1..Len(t.rows) |->
                    [j \in 1..Len(cols) |-> ConvertCell(cols[j], t.rows[r][j], money, col_year)]]]

\* the position of the column labelled c
ColumnIndex(frame, c) == CHOOSE j \in 1..Len(frame.cols) : frame.cols[j] = c

Cell(frame, r, c) == frame.rows[r][ColumnIndex(frame, c)]

\* frame[[...]].dropna(): the rows, in order, with no missing value in the
\* selected columns
RECURSIVE DropNaFrom(_, _, _)
DropNaFrom(frame, selected, r) ==
    IF r > Len(frame.rows) THEN <<>>
    ELSE (IF \A k \in 1..Len(selected) : ~IsNa(Cell(frame, r, selected[k]))
          THEN <<r>> ELSE <<>>) \o DropNaFrom(frame, selected, r + 1)

\* variant of DropNa: dropna() on the whole frame, before the columns are selected
DropNaWholeFrame(frame, selected) == DropNaFrom(frame, frame.cols, 1)

DropNa(frame, selected) == DropNaFrom(frame, selected, 1)

\* `column / 1e9` raises TypeError when a kept cell is text
DivisionFails(frame, kept, c) ==
    \E k \in 1..Len(kept) : Cell(frame, kept[k], c).kind = "str"

-----------------------------------------------------------------------------
(* The inputs the runs are checked on.                                     *)

L_Titulo == <<"T", "i'", "t", "u", "l", "o">>
L_Pelicula == <<"P", "e", "l", "i'", "c", "u", "l", "a">>
L_RecaudacionMundial == <<"R", "e", "c", "a", "u", "d", "a", "c", "i", "o'", "n", " ", "m", "u", "n", "d", "i", "a", "l">>
L_Mundial == <<"M", "u", "n", "d", "i", "a", "l">>
L_Global == <<"G", "l", "o", "b", "a", "l">>
L_EEUU == <<"E", "E", ".", " ", "U", "U", ".">>
L_FueraDeEEUU == <<"F", "u", "e", "r", "a", " ", "d", "e", " ", "E", "E", ".", " ", "U", "U", ".">>
L_EstadosUnidos == <<"E", "s", "t", "a", "d", "o", "s", " ", "U", "n", "i", "d", "o", "s">>
L_Internacional == <<"I", "n", "t", "e", "r", "n", "a", "c", "i", "o", "n", "a", "l">>
L_RestoDelMundo == <<"R", "e", "s", "t", "o", " ", "d", "e", "l", " ", "m", "u", "n", "d", "o">>
L_AnoDeEstreno == <<"A", "n~", "o", " ", "d", "e", " ", "e", "s", "t", "r", "e", "n", "o">>
L_Ano == <<"A", "n~", "o">>
L_Estreno == <<"E", "s", "t", "r", "e", "n", "o">>
L_Taquilla == <<"T", "a", "q", "u", "i", "l", "l", "a">>
L_Puesto == <<"P", "u", "e", "s", "t", "o">>
L_Director == <<"D", "i", "r", "e", "c", "t", "o", "r">>
L_DirectorPadded == <<" ", "D", "i", "r", "e", "c", "t", "o", "r", " ">>
CAP_Full == <<"R", "e", "c", "a", "u", "d", "a", "c", "i", "o", "n", "e", "s", " ", "a", " ", "n", "i", "v", "e", "l", " ", "m", "u", "n", "d", "i", "a", "l">>
CAP_Mundo == <<" ", "R", "e", "c", "a", "u", "d", "a", "c", "i", "o'", "n", " ", "e", "n", " ", "e", "l", " ", "m", "u", "n", "d", "o", " ">>
CAP_OnlyRevenue == <<"R", "e", "c", "a", "u", "d", "a", "c", "i", "o", "n", "e", "s">>
CAP_OnlyWorld == <<"M", "u", "n", "d", "i", "a", "l">>
CAP_Upper == <<"R", "E", "C", "A", "U", "D", "A", "C", "I", "O'", "N", " ", "M", "U", "N", "D", "I", "A", "L">>
CAP_Other == <<"N", "o", "t", "a", "s">>
S_money == <<"$", "2", ",", "8", "4", "7", ",", "0", "0", "0", ",", "0", "0", "0">>
S_na == <<"n", "/", "a">>
S_dash == <<"--">>
S_int64max == <<"9", "2", "2", "3", "3", "7", "2", "0", "3", "6", "8", "5", "4", "7", "7", "5", "8", "0", "7">>
S_uint64max == <<"1", "8", "4", "4", "6", "7", "4", "4", "0", "7", "3", "7", "0", "9", "5", "5", "1", "6", "1", "5">>
S_uint64over == <<"1", "8", "4", "4", "6", "7", "4", "4", "0", "7", "3", "7", "0", "9", "5", "5", "1", "6", "1", "7">>
S_big == <<"$", "1", "8", ",", "4", "4", "6", ",", "7", "4", "4", ",", "0", "7", "3", ",", "7", "0", "9", ",", "5", "5", "1", ",", "6", "1", "7">>
S_year == <<"2", "0", "1", "9">>

\* every string of at most n characters over the alphabet
StringsUpTo(alphabet, n) == UNION {[1..k -> alphabet] : k \in 0..n}

CellAlphabet == {"0", "1", "9", "$", ","}

\* the arguments to_number is applied to: both missing markers, every short
\* string over the alphabet, and strings around the limits of 64-bit integers
NumberArgs(n) ==
    {NaN, NA}
    \cup {Text(s) : s \in StringsUpTo(CellAlphabet, n)}
    \cup {Text(S_money), Text(S_na), Text(S_dash), Text(S_int64max),
          Text(S_uint64max), Text(S_uint64over), Text(S_big)}

TableKinds ==
    {Table(FALSE, NoCaption), Table(FALSE, Caption(CAP_Full)),
     Table(TRUE, NoCaption), Table(TRUE, Caption(<<>>)),
     Table(TRUE, Caption(CAP_Other)), Table(TRUE, Caption(CAP_OnlyRevenue)),
     Table(TRUE, Caption(CAP_OnlyWorld)), Table(TRUE, Caption(CAP_Full)),
     Table(TRUE, Caption(CAP_Mundo)), Table(TRUE, Caption(CAP_Upper))}

\* the documents find_target_table is checked on
Documents(max) == UNION {[1..n -> TableKinds] : n \in 0..max}

\* the documents a whole run is checked on
RunDocuments ==
    { <<>>,
      <<Table(FALSE, Caption(CAP_Full))>>,
      <<Table(TRUE, Caption(CAP_Other)), Table(TRUE, Caption(CAP_Full))>> }

PickLabels ==
    {L_Titulo, L_Pelicula, L_RecaudacionMundial, L_Mundial, L_Global, L_EEUU,
     L_FueraDeEEUU, L_EstadosUnidos, L_Internacional, L_RestoDelMundo,
     L_AnoDeEstreno, L_Ano, L_Estreno, L_Taquilla, L_Puesto, L_Director}

\* the column lists pick is checked on: distinct labels in every order
PickColumns(max) ==
    {cols \in UNION {[1..n -> PickLabels] : n \in 0..max} :
        \A i, j \in 1..Len(cols) : i # j => cols[i] # cols[j]}

RunLabels ==
    <<L_Titulo, L_RecaudacionMundial, L_Global, L_EEUU, L_FueraDeEEUU, L_Ano,
      L_Puesto, L_DirectorPadded>>

\* the column lists a whole run is checked on: the labels above, some left out
RunColumns(max) ==
    {[i \in 1..Len(ix) |-> RunLabels[ix[i]]] :
        ix \in {f \in UNION {[1..n -> 1..Len(RunLabels)] : n \in 0..max} :
                   \A i, j \in 1..Len(f) : i < j => f[i] < f[j]}}

RunCells == {NaN, Text(S_na), Text(S_year)}

\* the numbers of rows of a table of that many columns and at most maxCells cells
RowCounts(ncols, maxCells) == {n \in 0..maxCells : n * ncols <= maxCells}

-----------------------------------------------------------------------------
(* The state before a run and the steps of main (lines 40-137).            *)

EmptyTable == [cols |-> <<>>, rows |-> <<>>]
NoRoles == [movie |-> None, world |-> None, domestic |-> None, foreign |-> None, year |-> None]
NoStore == [connection |-> "never", written |-> FALSE, table |-> EmptyTable]
Unset == [kind |-> "unset"]

Blank ==
    /\ error = "none"
    /\ soup = <<>>
    /\ table_html = 0
    /\ raw = EmptyTable
    /\ df = EmptyTable
    /\ roles = NoRoles
    /\ money_like = <<>>
    /\ store = NoStore
    /\ charts = [top |-> "pending", by_year |-> "pending", comp |-> "pending"]
    /\ inputs = [top |-> <<>>, by_year |-> <<>>, comp |-> <<>>]
    /\ printed = FALSE
    /\ arg = NaN
    /\ ret = Unset

Init == pc = "fetch" /\ Blank

\* lines 42-43: requests.get raises on a failed fetch, raise_for_status on an
\* error status
Fetch ==
    /\ pc = "fetch"
    /\ \E ok \in BOOLEAN :
          IF ok THEN pc' = "parse" /\ error' = error
          ELSE pc' = "aborted" /\ error' = "RequestException"
    /\ UNCHANGED <<soup, table_html, raw, df, roles, money_like, store, charts,
                   inputs, printed, arg, ret>>

\* line 46
Parse ==
    /\ pc = "parse"
    /\ \E d \in RunDocuments : soup' = d
    /\ pc' = "locate"
    /\ UNCHANGED <<error, table_html, raw, df, roles, money_like, store, charts,
                   inputs, printed, arg, ret>>

\* variant of Locate: the check of lines 48-49 left out
LocateUnchecked ==
    /\ pc = "locate"
    /\ table_html' = find_target_table(soup)
    /\ pc' = "read_html"
    /\ UNCHANGED <<error, soup, raw, df, roles, money_like, store, charts, inputs,
                   printed, arg, ret>>

\* lines 47-49
Locate ==
    /\ pc = "locate"
    /\ table_html' = find_target_table(soup)
    /\ IF table_html' = 0
       THEN pc' = "aborted" /\ error' = "RuntimeError"
       ELSE pc' = "read_html" /\ error' = error
    /\ UNCHANGED <<soup, raw, df, roles, money_like, store, charts, inputs,
                   printed, arg, ret>>

\* line 50: the table extracted has at most MaxCols columns and MaxCells cells
ReadHtml ==
    /\ pc = "read_html"
    /\ \E cols \in RunColumns(MaxCols) : \E n \in RowCounts(Len(cols), MaxCells) :
          \E rows \in [1..n -> [1..Len(cols) -> RunCells]] :
             raw' = [cols |-> cols, rows |-> rows]
    /\ pc' = "normalize"
    /\ UNCHANGED <<error, soup, table_html, df, roles, money_like, store, charts,
                   inputs, printed, arg, ret>>

\* lines 53-82
Normalize ==
    /\ pc = "normalize"
    /\ roles' = PickRoles(StripColumns(raw.cols))
    /\ money_like' = MoneyLike(StripColumns(raw.cols))
    /\ df' = Normalized(raw)
    /\ pc' = "persist"
    /\ UNCHANGED <<error, soup, table_html, raw, store, charts, inputs, printed,
                   arg, ret>>

\* lines 85-89: connect, replace the table, close
Persist ==
    /\ pc = "persist"
    /\ store' = [connection |-> "closed", written |-> TRUE, table |-> df]
    /\ pc' = "chart1"
    /\ UNCHANGED <<error, soup, table_html, raw, df, roles, money_like, charts,
                   inputs, printed, arg, ret>>

\* lines 93-103: the top-15 chart
Chart1 ==
    /\ pc = "chart1"
    /\ IF roles.world.some /\ roles.movie.some
       THEN LET top == DropNa(df, <<roles.movie.label, roles.world.label>>)
            IN /\ inputs' = [inputs EXCEPT !.top = top]
               /\ IF DivisionFails(df, top, roles.world.label)
                  THEN pc' = "aborted" /\ error' = "TypeError" /\ charts' = charts
                  ELSE /\ pc' = "chart2" /\ error' = error
                       /\ charts' = [charts EXCEPT !.top = "rendered"]
       ELSE /\ pc' = "chart2" /\ error' = error /\ inputs' = inputs
            /\ charts' = [charts EXCEPT !.top = "skipped"]
    /\ UNCHANGED <<soup, table_html, raw, df, roles, money_like, store, printed,
                   arg, ret>>

\* lines 105-120: the per-year chart
Chart2 ==
    /\ pc = "chart2"
    /\ IF roles.world.some /\ roles.movie.some /\ roles.year.some
       THEN LET by_year == DropNa(df, <<roles.year.label, roles.world.label>>)
            IN /\ inputs' = [inputs EXCEPT !.by_year = by_year]
               /\ IF DivisionFails(df, by_year, roles.world.label)
                  THEN pc' = "aborted" /\ error' = "TypeError" /\ charts' = charts
                  ELSE /\ pc' = "chart3" /\ error' = error
                       /\ charts' = [charts EXCEPT !.by_year = "rendered"]
       ELSE /\ pc' = "chart3" /\ error' = error /\ inputs' = inputs
            /\ charts' = [charts EXCEPT !.by_year = "skipped"]
    /\ UNCHANGED <<soup, table_html, raw, df, roles, money_like, store, printed,
                   arg, ret>>

\* line 126: comp.sort_values(col_domestic + col_foreign): the key is the two
\* labels concatenated, and comp has the three selected columns only
SortKeyExists(r) ==
    (r.domestic.label \o r.foreign.label)
        \in {r.movie.label, r.domestic.label, r.foreign.label}

\* lines 122-135: the domestic against foreign chart
Chart3 ==
    /\ pc = "chart3"
    /\ IF roles.domestic.some /\ roles.foreign.some /\ roles.movie.some
       THEN LET comp == DropNa(df, <<roles.movie.label, roles.domestic.label,
                                     roles.foreign.label>>)
            IN /\ inputs' = [inputs EXCEPT !.comp = comp]
               /\ IF \/ DivisionFails(df, comp, roles.domestic.label)
                     \/ DivisionFails(df, comp, roles.foreign.label)
                  THEN pc' = "aborted" /\ error' = "TypeError" /\ charts' = charts
                  ELSE IF ~SortKeyExists(roles)
                  THEN pc' = "aborted" /\ error' = "KeyError" /\ charts' = charts
                  ELSE /\ pc' = "summary" /\ error' = error
                       /\ charts' = [charts EXCEPT !.comp = "rendered"]
       ELSE /\ pc' = "summary" /\ error' = error /\ inputs' = inputs
            /\ charts' = [charts EXCEPT !.comp = "skipped"]
    /\ UNCHANGED <<soup, table_html, raw, df, roles, money_like, store, printed,
                   arg, ret>>

\* line 137
Summary ==
    /\ pc = "summary"
    /\ printed' = TRUE
    /\ pc' = "done"
    /\ UNCHANGED <<error, soup, table_html, raw, df, roles, money_like, store,
                   charts, inputs, arg, ret>>

Next ==
    \/ Fetch
    \/ Parse
    \/ Locate
    \/ ReadHtml
    \/ Normalize
    \/ Persist
    \/ Chart1
    \/ Chart2
    \/ Chart3
    \/ Summary

Spec == Init /\ [][Next]_vars

-----------------------------------------------------------------------------
(* Function-level specifications: one function applied to each input of a  *)
(* bounded set.                                                            *)

\* to_number applied to one argument
ApplyToNumber ==
    /\ pc = "to_number"
    /\ ret' = to_number(arg)
    /\ pc' = "returned"
    /\ UNCHANGED <<error, soup, table_html, raw, df, roles, money_like, store,
                   charts, inputs, printed, arg>>

InitNumber ==
    /\ pc = "to_number"
    /\ Blank!1 /\ Blank!2 /\ Blank!3 /\ Blank!4 /\ Blank!5 /\ Blank!6 /\ Blank!7
    /\ Blank!8 /\ Blank!9 /\ Blank!10 /\ Blank!11
    /\ arg \in NumberArgs(MaxLen)
    /\ ret = Unset

SpecNumber == InitNumber /\ [][ApplyToNumber]_vars

\* find_target_table applied to each document
InitLocate ==
    /\ pc = "locate"
    /\ error = "none"
    /\ soup \in Documents(MaxTables)
    /\ Blank!3 /\ Blank!4 /\ Blank!5 /\ Blank!6 /\ Blank!7 /\ Blank!8 /\ Blank!9
    /\ Blank!10 /\ Blank!11 /\ Blank!12 /\ Blank!13

SpecLocate == InitLocate /\ [][Locate]_vars

\* the role matching and typing of lines 53-82 applied to each list of labels
InitPick ==
    /\ pc = "normalize"
    /\ Blank!1 /\ Blank!2 /\ Blank!3
    /\ raw \in {[cols |-> cols, rows |-> <<>>] : cols \in PickColumns(MaxPickCols)}
    /\ Blank!5 /\ Blank!6 /\ Blank!7 /\ Blank!8 /\ Blank!9 /\ Blank!10 /\ Blank!11
    /\ Blank!12 /\ Blank!13

SpecPick == InitPick /\ [][Normalize]_vars

-----------------------------------------------------------------------------
(* Properties.                                                             *)

Min(S) == CHOOSE x \in S : \A y \in S : x <= y

Range(seq) == {seq[i] : i \in 1..Len(seq)}

IsAscending(seq) == \A i, j \in 1..Len(seq) : i < j => seq[i] < seq[j]

\* the caption condition as the specification words it: a caption is present
\* and its case-folded text has a revenue token and a worldwide token
CaptionQualifies(t) ==
    /\ t.caption.has
    /\ \/ Contains(<<"r","e","c","a","u","d","a","c","i","o","n","e","s">>, Lower(t.caption.text))
       \/ Contains(<<"r","e","c","a","u","d","a","c","i","o'","n">>, Lower(t.caption.text))
    /\ \/ Contains(<<"m","u","n","d","i","a","l">>, Lower(t.caption.text))
       \/ Contains(<<"m","u","n","d","o">>, Lower(t.caption.text))

\* C1: with at least one wikitable in the document, find_target_table returns
\* the first wikitable, in document order, whose caption has a revenue token and
\* a worldwide token, whatever precedes or follows it; when no wikitable has
\* such a caption it returns the first wikitable.
C1_FirstMatchElseFirstWikitable ==
    LET wiki == {i \in 1..Len(soup) : soup[i].wikitable}
        matching == {i \in wiki : CaptionQualifies(soup[i])}
    IN (pc # "locate" /\ wiki # {}) =>
          table_html = (IF matching # {} THEN Min(matching) ELSE Min(wiki))

\* C1 witness: the table returned stands between two wikitables that do not match
C1_Witness ==
    /\ pc = "read_html"
    /\ Len(soup) = 3
    /\ table_html = 2
    /\ soup[1].wikitable /\ soup[1].caption.has /\ ~CaptionQualifies(soup[1])
    /\ soup[3].wikitable /\ ~soup[3].caption.has

NoOutput ==
    /\ store = NoStore
    /\ charts = [top |-> "pending", by_year |-> "pending", comp |-> "pending"]
    /\ ~printed

\* C2: a failed fetch, and a document with no wikitable, abort the run before
\* the store is opened or written, before any chart is rendered, and without
\* the summary line.
C2_FatalBeforeAnyOutput ==
    /\ error = "RequestException" => (pc = "aborted" /\ NoOutput)
    /\ (/\ pc \notin {"fetch", "parse", "locate"}
        /\ error # "RequestException"
        /\ \A i \in 1..Len(soup) : ~soup[i].wikitable)
          => (pc = "aborted" /\ error = "RuntimeError" /\ NoOutput)

\* C2 witness: a document whose only table is no wikitable has aborted the run
C2_Witness ==
    /\ pc = "aborted"
    /\ error = "RuntimeError"
    /\ Len(soup) = 1
    /\ NoOutput

\* C3: to_number returns missing for a missing cell and for a string with no
\* digit, and for a string with a digit the non-negative integer formed by its
\* digits read in order.
C3_ToNumberIsTheDigits ==
    pc = "returned" =>
        IF IsNa(arg) THEN IsNa(ret)
        ELSE IF \A i \in 1..Len(arg.s) : ~IsDigit(arg.s[i]) THEN IsNa(ret)
        ELSE ret = IntVal(Canonical(SelectSeq(arg.s, IsDigit)))

\* the role's column as the specification words it: the earliest pattern that
\* some label contains, and the first column, in column order, containing it
PriorityColumn(patterns, cols) ==
    LET found == {k \in 1..Len(patterns) :
                     \E j \in 1..Len(cols) : Contains(patterns[k], Lower(cols[j]))}
    IN IF found = {} THEN None
       ELSE Some(cols[Min({j \in 1..Len(cols) :
                              Contains(patterns[Min(found)], Lower(cols[j]))})])

\* C4: each role resolves to the first column, in column order, containing the
\* earliest pattern of the role's list that any column contains, and is absent
\* exactly when no label contains any pattern of the role.
C4_PickIsPatternPriority ==
    pc = "persist" =>
        /\ roles.movie = PriorityColumn(MOVIE_PATTERNS, df.cols)
        /\ roles.world = PriorityColumn(WORLD_PATTERNS, df.cols)
        /\ roles.domestic = PriorityColumn(DOMESTIC_PATTERNS, df.cols)
        /\ roles.foreign = PriorityColumn(FOREIGN_PATTERNS, df.cols)
        /\ roles.year = PriorityColumn(YEAR_PATTERNS, df.cols)

\* C4 witness: a column matching a later pattern stands before the column
\* matching the first pattern, and the role resolves to the second
C4_Witness ==
    /\ pc = "persist"
    /\ df.cols = <<L_Mundial, L_RecaudacionMundial>>
    /\ roles.world = Some(L_RecaudacionMundial)

\* C5: apart from a failed fetch and a document with no wikitable nothing
\* aborts the run (a division of text cells, which is C9's subject, set aside):
\* no combination of resolved roles makes a chart step raise.
C5_OnlyTwoFatalConditions ==
    (pc = "aborted" /\ error # "TypeError") =>
        error \in {"RequestException", "RuntimeError"}

\* the rows of the stored table with no missing value in the listed columns
RowsWithAll(labels) ==
    {r \in 1..Len(store.table.rows) :
        \A k \in 1..Len(labels) :
            ~IsNa(store.table.rows[r][CHOOSE j \in 1..Len(store.table.cols) :
                                         store.table.cols[j] = labels[k]])}

\* a stored cell comes from the extracted cell: unchanged, or typed
StoredFrom(x, y) ==
    \/ y = x
    \/ IsNa(y)
    \/ x.kind = "str" /\ y.kind \in {"int", "float"}

\* C6: the stored table has every row of the extracted table, in the same
\* order, rows with missing money or year cells included, and each chart's
\* input is exactly the rows with no missing value in the columns that chart
\* selects.
C6_RowsDroppedPerChartOnly ==
    /\ store.written =>
          /\ Len(store.table.rows) = Len(raw.rows)
          /\ \A r \in 1..Len(raw.rows) : \A j \in 1..Len(raw.cols) :
                StoredFrom(raw.rows[r][j], store.table.rows[r][j])
    /\ charts.top = "rendered" =>
          /\ IsAscending(inputs.top)
          /\ Range(inputs.top) = RowsWithAll(<<roles.movie.label, roles.world.label>>)
    /\ charts.by_year = "rendered" =>
          /\ IsAscending(inputs.by_year)
          /\ Range(inputs.by_year) = RowsWithAll(<<roles.year.label, roles.world.label>>)
    /\ (charts.comp = "rendered" \/ error = "KeyError") =>
          /\ IsAscending(inputs.comp)
          /\ Range(inputs.comp) =
                RowsWithAll(<<roles.movie.label, roles.domestic.label, roles.foreign.label>>)

\* C6 witness: two rows are stored; the first, whose year became missing, is in
\* the top chart's input only, and the second, with no title, in the per-year
\* chart's input only
C6_Witness ==
    /\ charts.top = "rendered"
    /\ charts.by_year = "rendered"
    /\ Len(store.table.rows) = 2
    /\ inputs.top = <<1>>
    /\ inputs.by_year = <<2>>
    /\ \E j \in 1..Len(raw.cols) :
          raw.rows[1][j].kind = "str" /\ store.table.rows[1][j] = NaN

\* C7: each chart is rendered exactly when every role whose column it reads is
\* resolved: title and worldwide for the top chart, year and worldwide for the
\* per-year chart, title, domestic and foreign for the comparison chart.
C7_ChartIffItsRoles ==
    pc \in {"summary", "done"} =>
        /\ charts.top = "rendered" <=> (roles.movie.some /\ roles.world.some)
        /\ charts.by_year = "rendered" <=> (roles.year.some /\ roles.world.some)
        /\ charts.comp = "rendered"
              <=> (roles.movie.some /\ roles.domestic.some /\ roles.foreign.some)

InAnyRole(c) ==
    \/ ContainsAny(MOVIE_PATTERNS, Lower(c))
    \/ ContainsAny(WORLD_PATTERNS, Lower(c))
    \/ ContainsAny(DOMESTIC_PATTERNS, Lower(c))
    \/ ContainsAny(FOREIGN_PATTERNS, Lower(c))
    \/ ContainsAny(YEAR_PATTERNS, Lower(c))

\* C8: the stored table has the columns of the extracted table, one for one
\* (the labels stripped), and a column whose label matches no role pattern,
\* has no money token and is no rank label keeps every cell unchanged.
C8_PassThroughUntouched ==
    store.written =>
        /\ Len(store.table.cols) = Len(raw.cols)
        /\ \A j \in 1..Len(raw.cols) :
              /\ store.table.cols[j] = Strip(raw.cols[j])
              /\ (/\ ~InAnyRole(raw.cols[j])
                  /\ ~ContainsAny(MONEY_TOKENS, Lower(raw.cols[j]))
                  /\ Lower(Strip(raw.cols[j])) \notin ORDINAL_LABELS)
                    => \A r \in 1..Len(raw.rows) :
                          store.table.rows[r][j] = raw.rows[r][j]

\* C8 witness: a stored table with a pass-through column holding text, beside
\* a money column whose cell was typed
C8_Witness ==
    /\ store.written
    /\ \E j, k \in 1..Len(raw.cols) :
          /\ raw.cols[j] = L_DirectorPadded
          /\ store.table.cols[j] = L_Director
          /\ Len(raw.rows) >= 1
          /\ store.table.rows[1][j] = Text(S_na)
          /\ raw.rows[1][k].kind = "str"
          /\ store.table.rows[1][k].kind = "int"

\* C9: every column a gross role resolves to is in the money_like list.
C9_GrossRolesAreMoneyLike ==
    pc = "persist" =>
        \A r \in {roles.world, roles.domestic, roles.foreign} :
            r.some => InList(r.label, money_like)

\* C10: no two resolved roles point to the same column.
C10_RolesAreDistinctColumns ==
    pc = "persist" =>
        \A a, b \in {"movie", "world", "domestic", "foreign", "year"} :
            (a # b /\ roles[a].some /\ roles[b].some) => roles[a].label # roles[b].label

====
